---- MODULE Spec2Model ----
(***************************************************************************)
(* Model of the deepzoom tool (deepzoom.go): the pyramid geometry of       *)
(* DeepZoomImageDescriptor, the resize-filter lookup, and the tile         *)
(* emission loop of ImageCreator.create.                                   *)
(*                                                                         *)
(* Numbers.  The Go code goes through float64 (math.Max, math.Min,         *)
(* math.Pow(0.5,k), math.Log2, math.Ceil).  For image dimensions every one *)
(* of these is exact: 0.5^k is a power of two, a product with it and the   *)
(* ceiling of it are exact, and math.Log2 is exact on powers of two and    *)
(* strictly between two integers otherwise.  The model therefore computes  *)
(* on integers, a scale being the fraction num/den.                        *)
(*                                                                         *)
(* Strings that the code takes apart or builds (paths, formats) are        *)
(* sequences of one-character strings; filter names, which the code only   *)
(* compares, are strings.                                                  *)
(***************************************************************************)
EXTENDS Integers, Sequences, FiniteSets, TLC

VARIABLES
  dzid,         \* the DeepZoomImageDescriptor (ic.dzid)
  ic,           \* the ImageCreator's own fields: ResizeFilter
  ret,          \* the last call of the descriptor / creator API and its outcome
  pc,           \* position of ImageCreator.create
  destination,  \* create's argument
  imageFiles,   \* create's local imageFiles
  level,        \* create's loop variable level
  levelDir,     \* create's local levelDir
  levelImage,   \* create's local levelImage
  columns,      \* create's local columns
  rows,         \* create's local rows
  column,       \* create's loop variable column
  row,          \* create's loop variable row
  disk,         \* the file system: path -> what was written there
  log           \* the trace of create: what it did, in order

vars == <<dzid, ic, ret, pc, destination, imageFiles, level, levelDir,
          levelImage, columns, rows, column, row, disk, log>>

runVars == <<pc, destination, imageFiles, level, levelDir, levelImage,
             columns, rows, column, row, disk, log>>

(***************************************************************************)
(* Bounds of the model.                                                    *)
(***************************************************************************)
\* source dimensions of the API specification: Width, Height in 1..MaxDim
MaxDim == 5
\* TileSize in 1..MaxTile
MaxTile == 2
\* Overlap in 0..MaxOverlap (larger than MaxTile on purpose)
MaxOverlap == 3
\* level arguments of the API calls: -1..MaxLevelArg
MaxLevelArg == 4
\* source dimensions of the create run: Width, Height in 1..RunMaxDim
RunMaxDim == 3
\* Overlap in 0..RunMaxOverlap in the create run
RunMaxOverlap == 1

(***************************************************************************)
(* Arithmetic helpers.                                                     *)
(***************************************************************************)
Max(a, b) == IF a >= b THEN a ELSE b

Min(a, b) == IF a <= b THEN a ELSE b

\* int(math.Ceil(math.Log2(float64(n)))) for n >= 1
RECURSIVE CeilLog2(_)
CeilLog2(n) == IF n <= 1 THEN 0 ELSE 1 + CeilLog2((n + 1) \div 2)

\* math.Pow(0.5, float64(k)), as a fraction
PowHalf(k) == IF k >= 0 THEN [num |-> 1, den |-> 2 ^ k] ELSE [num |-> 2 ^ (0 - k), den |-> 1]

\* int(math.Ceil(float64(n) * scale))
CeilMul(n, scale) == (n * scale.num + scale.den - 1) \div scale.den

\* int(math.Ceil(float64(a) / float64(b))), a >= 0, b > 0
CeilDiv(a, b) == (a + b - 1) \div b

(***************************************************************************)
(* Resize filters.                                                         *)
(***************************************************************************)
RESIZE_FILTERS ==
  [k \in {"bilinear", "bicubic", "nearest", "lanczos"} |->
     CASE k = "bilinear" -> "resize.Bilinear"
       [] k = "bicubic"  -> "resize.Bicubic"
       [] k = "nearest"  -> "resize.NearestNeighbor"
       [] k = "lanczos"  -> "resize.Lanczos3"]

\* a Go map lookup m[k]: the zero value (a nil function) for a missing key
MapLookup(m, k) == IF k \in DOMAIN m THEN m[k] ELSE "nil"

obtainFilterNoFallback(filter) == filter

obtainFilter(filter) ==
  LET b == \E k \in DOMAIN RESIZE_FILTERS : filter = k
  IN  IF b = FALSE THEN "nearest" ELSE filter

(***************************************************************************)
(* DeepZoomImageDescriptor.  A method that fills the numLevels cache is    *)
(* modelled by its value (NumLevels) and by the descriptor it leaves       *)
(* (Memo).  Every other method calls pyramidLevelCheck first, which calls  *)
(* NumLevels unless level < 0 already decides its test, and so leaves      *)
(* AfterCheck(lvl, d).                                                     *)
(***************************************************************************)
InvalidLevel == "invalid pyramid level"

NumLevelsFloor(d) ==
  IF d.numLevels = 0
    THEN LET maxDimension == Max(d.Height, d.Width)
         IN  (IF 2 ^ CeilLog2(maxDimension) = maxDimension
                THEN CeilLog2(maxDimension)
                ELSE CeilLog2(maxDimension) - 1) + 1
    ELSE d.numLevels

NumLevels(d) ==
  IF d.numLevels = 0
    THEN LET maxDimension == Max(d.Height, d.Width)
         IN  CeilLog2(maxDimension) + 1
    ELSE d.numLevels

Memo(d) == [d EXCEPT !.numLevels = NumLevels(d)]

pyramidLevelCheckOffByOne(lvl, d) == lvl < 0 \/ lvl > NumLevels(d)

\* TRUE when pyramidLevelCheck panics
pyramidLevelCheck(lvl, d) == lvl < 0 \/ lvl >= NumLevels(d)

\* the descriptor pyramidLevelCheck leaves: level < 0 || level >= NumLevels()
\* does not evaluate NumLevels() when level < 0
AfterCheck(lvl, d) == IF lvl < 0 THEN d ELSE Memo(d)

\* a call that returned v, and a call that panicked with msg
Ok(v) == [err |-> "", val |-> v]

Panic(msg) == [err |-> msg, val |-> "none"]

getScaleNoMinusOne(d, lvl) ==
  IF pyramidLevelCheck(lvl, d) THEN Panic(InvalidLevel)
  ELSE LET maxLevel == NumLevels(Memo(d))
       IN  Ok(PowHalf(maxLevel - lvl))

getScale(d, lvl) ==
  IF pyramidLevelCheck(lvl, d) THEN Panic(InvalidLevel)
  ELSE LET maxLevel == NumLevels(Memo(d)) - 1
       IN  Ok(PowHalf(maxLevel - lvl))

getDimensions(d, lvl) ==
  IF pyramidLevelCheck(lvl, d) THEN Panic(InvalidLevel)
  ELSE LET scale == getScale(Memo(d), lvl)
       IN  IF scale.err # "" THEN scale
           ELSE LET width  == CeilMul(d.Width, scale.val)
                    height == CeilMul(d.Height, scale.val)
                IN  Ok(<<width, height>>)

getNumTilesFloor(d, lvl) ==
  IF pyramidLevelCheck(lvl, d) THEN Panic(InvalidLevel)
  ELSE LET wh == getDimensions(Memo(d), lvl)
       IN  IF wh.err # "" THEN wh
           ELSE Ok(<<Max(1, wh.val[1] \div d.TileSize), Max(1, wh.val[2] \div d.TileSize)>>)

\* Number of tiles (columns, rows)
getNumTiles(d, lvl) ==
  IF pyramidLevelCheck(lvl, d) THEN Panic(InvalidLevel)
  ELSE LET wh == getDimensions(Memo(d), lvl)
       IN  IF wh.err # "" THEN wh
           ELSE Ok(<<CeilDiv(wh.val[1], d.TileSize), CeilDiv(wh.val[2], d.TileSize)>>)

Rectangle(x0, y0, x1, y1) == [Min |-> [X |-> x0, Y |-> y0], Max |-> [X |-> x1, Y |-> y1]]

getTileBoundsOneSide(d, lvl, col, rw) ==
  IF pyramidLevelCheck(lvl, d) THEN Panic(InvalidLevel)
  ELSE LET offsetX == IF col # 0 THEN d.Overlap ELSE 0
           offsetY == IF rw # 0 THEN d.Overlap ELSE 0
           x  == (col * d.TileSize) - offsetX
           y  == (rw * d.TileSize) - offsetY
           wh == getDimensions(Memo(d), lvl)
       IN  IF wh.err # "" THEN wh
           ELSE LET w == Min(d.TileSize + d.Overlap, wh.val[1] - x)
                    h == Min(d.TileSize + d.Overlap, wh.val[2] - y)
                IN  Ok(Rectangle(x, y, x + w, y + h))

getTileBounds(d, lvl, col, rw) ==
  IF pyramidLevelCheck(lvl, d) THEN Panic(InvalidLevel)
  ELSE LET offsetX == IF col # 0 THEN d.Overlap ELSE 0
           offsetW == IF col # 0 THEN 2 ELSE 1
           offsetY == IF rw # 0 THEN d.Overlap ELSE 0
           offsetH == IF rw # 0 THEN 2 ELSE 1
           x  == (col * d.TileSize) - offsetX
           y  == (rw * d.TileSize) - offsetY
           wh == getDimensions(Memo(d), lvl)
       IN  IF wh.err # "" THEN wh
           ELSE LET levelWidth  == wh.val[1]
                    levelHeight == wh.val[2]
                    w == Min(d.TileSize + offsetW * d.Overlap, levelWidth - x)
                    h == Min(d.TileSize + offsetH * d.Overlap, levelHeight - y)
                IN  Ok(Rectangle(x, y, x + w, y + h))

(***************************************************************************)
(* Rasters are known by their origin and their size.  ic.Image is the      *)
(* decoded source, Width x Height.                                         *)
(*                                                                         *)
(* resize.Thumbnail(maxWidth, maxHeight, img, interp) is the library       *)
(* function of github.com/nfnt/resize that getImage calls: it returns img  *)
(* itself when img already fits, and otherwise scales it down to fit,      *)
(* keeping the aspect ratio in unsigned integer arithmetic (the quotient   *)
(* is truncated, and raised to 1 when it is 0).                            *)
(***************************************************************************)
Raster(kind, w, h, interp) == [kind |-> kind, width |-> w, height |-> h, interp |-> interp]

SourceImage(d) == Raster("source", d.Width, d.Height, "none")

Thumbnail(maxWidth, maxHeight, img, interp) ==
  LET origWidth  == img.width
      origHeight == img.height
      shrunkH == Max(1, (origHeight * maxWidth) \div origWidth)
      w1 == IF origWidth > maxWidth THEN maxWidth ELSE origWidth
      h1 == IF origWidth > maxWidth THEN shrunkH ELSE origHeight
      shrunkW == Max(1, (w1 * maxHeight) \div h1)
      newWidth  == IF h1 > maxHeight THEN shrunkW ELSE w1
      newHeight == IF h1 > maxHeight THEN maxHeight ELSE h1
  IN  IF maxWidth >= origWidth /\ maxHeight >= origHeight THEN img
      ELSE Raster("resized", newWidth, newHeight, interp)

getImage(c, d, lvl) ==
  IF pyramidLevelCheck(lvl, d) THEN Panic(InvalidLevel)
  ELSE LET wh == getDimensions(Memo(d), lvl)
       IN  IF wh.err # "" THEN wh
           ELSE IF d.Width = wh.val[1] /\ d.Height = wh.val[2]
             THEN Ok(SourceImage(d))
             ELSE LET filter == obtainFilter(c.ResizeFilter)
                  IN  Ok(Thumbnail(wh.val[1], wh.val[2], SourceImage(d),
                                   MapLookup(RESIZE_FILTERS, filter)))

(***************************************************************************)
(* The API specification: any sequence of calls on one descriptor.        *)
(***************************************************************************)
FilterNames == {"bilinear", "bicubic", "nearest", "lanczos", "xyz", ""}

LevelArgs == (0 - 1) .. MaxLevelArg

CharsJpg == <<"j", "p", "g">>

CharsPng == <<"p", "n", "g">>

NoCall == [op |-> "none", level |-> 0, column |-> 0, row |-> 0, err |-> "", val |-> "none"]

CallRecord(op, lvl, col, rw, res) ==
  [op |-> op, level |-> lvl, column |-> col, row |-> rw, err |-> res.err, val |-> res.val]

\* create has not started and is not part of this specification
RunIdle ==
  /\ pc = "idle"
  /\ destination = <<>>
  /\ imageFiles = <<>>
  /\ level = 0
  /\ levelDir = <<>>
  /\ levelImage = Raster("none", 0, 0, "none")
  /\ columns = 0
  /\ rows = 0
  /\ column = 0
  /\ row = 0
  /\ disk = <<>>
  /\ log = <<>>

InitCalls ==
  /\ \E w \in 1..MaxDim, h \in 1..MaxDim, t \in 1..MaxTile, o \in 0..MaxOverlap :
       dzid = [Format |-> CharsJpg, Overlap |-> o, TileSize |-> t,
               Height |-> h, Width |-> w, numLevels |-> 0]
  /\ ic = [ResizeFilter |-> ""]
  /\ ret = NoCall
  /\ RunIdle

CallNumLevels ==
  /\ ret' = CallRecord("NumLevels", 0, 0, 0, Ok(NumLevels(dzid)))
  /\ dzid' = Memo(dzid)
  /\ UNCHANGED <<ic, runVars>>

CallGetScale ==
  \E lvl \in LevelArgs :
    /\ ret' = CallRecord("getScale", lvl, 0, 0, getScale(dzid, lvl))
    /\ dzid' = AfterCheck(lvl, dzid)
    /\ UNCHANGED <<ic, runVars>>

CallGetDimensions ==
  \E lvl \in LevelArgs :
    /\ ret' = CallRecord("getDimensions", lvl, 0, 0, getDimensions(dzid, lvl))
    /\ dzid' = AfterCheck(lvl, dzid)
    /\ UNCHANGED <<ic, runVars>>

CallGetNumTiles ==
  \E lvl \in LevelArgs :
    /\ ret' = CallRecord("getNumTiles", lvl, 0, 0, getNumTiles(dzid, lvl))
    /\ dzid' = AfterCheck(lvl, dzid)
    /\ UNCHANGED <<ic, runVars>>

\* the coordinates are those getNumTiles produces; on an invalid level, where
\* there are none, the call is made with (0, 0)
TileArgs(d, lvl) ==
  LET n == getNumTiles(d, lvl)
  IN  IF n.err # "" THEN {<<0, 0>>}
      ELSE (0 .. n.val[1] - 1) \X (0 .. n.val[2] - 1)

CallGetTileBounds ==
  \E lvl \in LevelArgs :
    \E cr \in TileArgs(dzid, lvl) :
      /\ ret' = CallRecord("getTileBounds", lvl, cr[1], cr[2],
                           getTileBounds(dzid, lvl, cr[1], cr[2]))
      /\ dzid' = AfterCheck(lvl, dzid)
      /\ UNCHANGED <<ic, runVars>>

CallGetImage ==
  \E lvl \in LevelArgs :
    /\ ret' = CallRecord("getImage", lvl, 0, 0, getImage(ic, dzid, lvl))
    /\ dzid' = AfterCheck(lvl, dzid)
    /\ UNCHANGED <<ic, runVars>>

\* dzid.New(tileSize, overlap, format): sets the three fields, returns dzid
CallNew ==
  \E tileSize \in 1..MaxTile, overlap \in 0..MaxOverlap, format \in {CharsJpg, CharsPng} :
    /\ dzid' = [dzid EXCEPT !.TileSize = tileSize, !.Overlap = overlap, !.Format = format]
    /\ ret' = CallRecord("New", 0, 0, 0, Ok("dzid"))
    /\ UNCHANGED <<ic, runVars>>

NextCalls ==
  \/ CallNumLevels
  \/ CallGetScale
  \/ CallGetDimensions
  \/ CallGetNumTiles
  \/ CallGetTileBounds
  \/ CallGetImage
  \/ CallNew

SpecCalls == InitCalls /\ [][NextCalls]_vars

(***************************************************************************)
(* The filter specification: obtainFilter and getImage under every filter  *)
(* name, on small rasters.                                                 *)
(***************************************************************************)
InitFilter ==
  /\ \E w \in 1..RunMaxDim, h \in 1..RunMaxDim :
       dzid = [Format |-> CharsJpg, Overlap |-> 0, TileSize |-> 1,
               Height |-> h, Width |-> w, numLevels |-> 0]
  /\ \E f \in FilterNames : ic = [ResizeFilter |-> f]
  /\ ret = NoCall
  /\ RunIdle

CallObtainFilter ==
  /\ ret' = CallRecord("obtainFilter", 0, 0, 0, Ok(obtainFilter(ic.ResizeFilter)))
  /\ UNCHANGED <<dzid, ic, runVars>>

NextFilter ==
  \/ CallObtainFilter
  \/ CallGetImage
  \/ CallNumLevels

SpecFilter == InitFilter /\ [][NextFilter]_vars

(***************************************************************************)
(* Paths: strings as sequences of characters.                              *)
(***************************************************************************)
Digits == <<"0", "1", "2", "3", "4", "5", "6", "7", "8", "9">>

\* strconv.Itoa, and fmt's %d
RECURSIVE Itoa(_)
Itoa(n) ==
  IF n < 0 THEN <<"-">> \o Itoa(0 - n)
  ELSE IF n < 10 THEN <<Digits[n + 1]>>
  ELSE Itoa(n \div 10) \o <<Digits[(n % 10) + 1]>>

\* path.Ext: the suffix from the final dot of the final slash-separated element
RECURSIVE ExtFrom(_, _)
ExtFrom(p, i) ==
  IF i < 1 \/ p[i] = "/" THEN <<>>
  ELSE IF p[i] = "." THEN SubSeq(p, i, Len(p))
  ELSE ExtFrom(p, i - 1)

Ext(p) == ExtFrom(p, Len(p))

HasSuffix(s, suffix) ==
  /\ Len(s) >= Len(suffix)
  /\ SubSeq(s, Len(s) - Len(suffix) + 1, Len(s)) = suffix

TrimSuffix(s, suffix) ==
  IF HasSuffix(s, suffix) THEN SubSeq(s, 1, Len(s) - Len(suffix)) ELSE s

getFilesPath(filePath) ==
  TrimSuffix(filePath, Ext(filePath)) \o <<"_", "f", "i", "l", "e", "s">>

\* the elements of p between its slashes, from position i on, cur being the
\* element under way
RECURSIVE SplitFrom(_, _, _)
SplitFrom(p, i, cur) ==
  IF i > Len(p) THEN <<cur>>
  ELSE IF p[i] = "/" THEN <<cur>> \o SplitFrom(p, i + 1, <<>>)
  ELSE SplitFrom(p, i + 1, Append(cur, p[i]))

\* path.Clean's pass over the elements: empty and "." elements are dropped,
\* ".." takes back the element before it (and is kept at the front of a path
\* that is not rooted)
RECURSIVE CleanElems(_, _, _, _)
CleanElems(elems, i, out, rooted) ==
  IF i > Len(elems) THEN out
  ELSE LET e == elems[i]
       IN  IF e = <<>> \/ e = <<".">> THEN CleanElems(elems, i + 1, out, rooted)
           ELSE IF e = <<".", ".">>
             THEN IF Len(out) > 0 /\ out[Len(out)] # <<".", ".">>
                    THEN CleanElems(elems, i + 1, SubSeq(out, 1, Len(out) - 1), rooted)
                    ELSE IF rooted THEN CleanElems(elems, i + 1, out, rooted)
                    ELSE CleanElems(elems, i + 1, Append(out, e), rooted)
             ELSE CleanElems(elems, i + 1, Append(out, e), rooted)

RECURSIVE JoinElems(_, _)
JoinElems(elems, i) ==
  IF i > Len(elems) THEN <<>>
  ELSE IF i = Len(elems) THEN elems[i]
  ELSE elems[i] \o <<"/">> \o JoinElems(elems, i + 1)

\* path.Clean
Clean(p) ==
  IF p = <<>> THEN <<".">>
  ELSE LET rooted == p[1] = "/"
           body == JoinElems(CleanElems(SplitFrom(p, 1, <<>>), 1, <<>>, rooted), 1)
       IN  IF rooted THEN <<"/">> \o body
           ELSE IF body = <<>> THEN <<".">>
           ELSE body

\* path.Join of two elements: the non-empty ones, joined by a slash and Cleaned
Join(a, b) ==
  IF a = <<>> /\ b = <<>> THEN <<>>
  ELSE IF a = <<>> THEN Clean(b)
  ELSE Clean(a \o <<"/">> \o b)

\* fmt.Sprintf("%d_%d.%s", column, row, format)
TileName(col, rw, format) == Itoa(col) \o <<"_">> \o Itoa(rw) \o <<".">> \o format

(***************************************************************************)
(* The file system.  fs maps the path of a file, as the elements that lead *)
(* to it from the working directory (or from the root, for a rooted path), *)
(* to what is there: a directory or a file.  The operating system resolves *)
(* the path a call passes element by element, as written: "a/.." needs the *)
(* directory a.  The working directory, the root and the directories above *)
(* the working directory are always there; there are no symbolic links.    *)
(***************************************************************************)
Dir == [kind |-> "dir"]

DotDot == <<".", ".">>

Rooted(p) == p # <<>> /\ p[1] = "/"

\* the path of the file the elements at lead to
KeyOf(at, rooted) ==
  IF rooted THEN <<"/">> \o JoinElems(at, 1)
  ELSE IF at = <<>> THEN <<".">>
  ELSE JoinElems(at, 1)

\* the working directory, the root, the directories above the working directory
AlwaysThere(at) == \A i \in DOMAIN at : at[i] = DotDot

There(fs, at, rooted) == AlwaysThere(at) \/ KeyOf(at, rooted) \in DOMAIN fs

ThereDir(fs, at, rooted) ==
  \/ AlwaysThere(at)
  \/ KeyOf(at, rooted) \in DOMAIN fs /\ fs[KeyOf(at, rooted)].kind = "dir"

\* where the element e leads from the directory at
StepElem(at, e, rooted) ==
  IF e = <<>> \/ e = <<".">> THEN at
  ELSE IF e = DotDot
    THEN IF at # <<>> /\ at[Len(at)] # DotDot THEN SubSeq(at, 1, Len(at) - 1)
         ELSE IF rooted THEN at
         ELSE Append(at, e)
    ELSE Append(at, e)

\* the walk along the elements from the i-th on: every element is looked up in
\* a directory that is there
RECURSIVE Walk(_, _, _, _, _)
Walk(fs, elems, i, at, rooted) ==
  IF i > Len(elems) THEN [err |-> "nil", at |-> at]
  ELSE IF ~There(fs, at, rooted) THEN [err |-> "ENOENT", at |-> at]
  ELSE IF ~ThereDir(fs, at, rooted) THEN [err |-> "ENOTDIR", at |-> at]
  ELSE Walk(fs, elems, i + 1, StepElem(at, elems[i], rooted), rooted)

\* the file the path p names: err is nil when the walk to it succeeds
Resolve(fs, p) ==
  IF p = <<>> THEN [err |-> "ENOENT", at |-> <<>>]
  ELSE Walk(fs, SplitFrom(p, 1, <<>>), 1, <<>>, Rooted(p))

Exists(fs, p) ==
  LET r == Resolve(fs, p) IN r.err = "nil" /\ There(fs, r.at, Rooted(p))

IsDir(fs, p) ==
  LET r == Resolve(fs, p) IN r.err = "nil" /\ ThereDir(fs, r.at, Rooted(p))

FileAt(fs, p) == fs[KeyOf(Resolve(fs, p).at, Rooted(p))]

\* the outcomes of os.Stat(p): the error of the walk (ENOENT, ENOTDIR); nil or
\* ENOENT as the file is there or not; and EIO for any other failure
StatErrs(fs, p) ==
  IF Resolve(fs, p).err # "nil" THEN {Resolve(fs, p).err, "EIO"}
  ELSE IF Exists(fs, p) THEN {"nil", "EIO"}
  ELSE {"ENOENT", "EIO"}

\* os.IsNotExist(err)
IsNotExist(err) == err = "ENOENT"

\* the outcomes of os.Create(p): it can succeed only where the walk to p
\* succeeds and p is not a directory
CreateErrs(fs, p) ==
  LET r == Resolve(fs, p)
  IN  IF r.err = "nil" /\ ~ThereDir(fs, r.at, Rooted(p)) THEN {"nil", "error"}
      ELSE {"error"}

\* v written at the file p names
Put(fs, p, v) ==
  (KeyOf(Resolve(fs, p).at, Rooted(p)) :> v) @@ fs

\* os.MkdirAll from the k-th prefix of the path on, shorter prefixes first:
\* a prefix that is a directory is passed, one that is missing is made (Mkdir),
\* one that is a file or cannot be walked to ends the call with its error.
\* fs0 is the file system at the call; budget is the number of Mkdir calls
\* that succeed before one fails.
RECURSIVE MkdirFrom(_, _, _, _, _, _)
MkdirFrom(fs0, fs, elems, k, rooted, budget) ==
  IF k > Len(elems) THEN [fs |-> fs, err |-> "nil"]
  ELSE IF k = 1 /\ elems[1] = <<>> THEN MkdirFrom(fs0, fs, elems, k + 1, rooted, budget)
  ELSE LET r == Walk(fs, SubSeq(elems, 1, k), 1, <<>>, rooted)
           r0 == Walk(fs0, SubSeq(elems, 1, k), 1, <<>>, rooted)
       IN  IF r.err # "nil" THEN [fs |-> fs, err |-> r.err]
           ELSE IF ThereDir(fs, r.at, rooted)
             THEN MkdirFrom(fs0, fs, elems, k + 1, rooted, budget)
           ELSE IF There(fs, r.at, rooted)
             THEN [fs |-> fs, err |-> IF r0.err = "nil" THEN "ENOTDIR" ELSE "EEXIST"]
           ELSE IF budget = 0 THEN [fs |-> fs, err |-> "error"]
           ELSE MkdirFrom(fs0, Put(fs, JoinElems(SubSeq(elems, 1, k), 1), Dir), elems,
                          k + 1, rooted, budget - 1)

\* os.MkdirAll(p) in which the first `made` Mkdir calls succeed and the next fails
MkdirSome(fs, p, made) ==
  IF p = <<>> THEN [fs |-> fs, err |-> "ENOENT"]
  ELSE MkdirFrom(fs, fs, SplitFrom(p, 1, <<>>), 1, Rooted(p), made)

\* os.MkdirAll(p) in which no Mkdir call fails for a reason outside the model
MkdirAll(fs, p) == MkdirSome(fs, p, Len(p))

\* the directories os.MkdirAll(p) makes
MissingDirs(fs, p) == DOMAIN MkdirAll(fs, p).fs \ DOMAIN fs

\* what dzid.save writes: DZITemplate filled with the descriptor's fields
DescriptorFile(d) ==
  [kind |-> "dzi", Format |-> d.Format, Overlap |-> d.Overlap,
   TileSize |-> d.TileSize, Height |-> d.Height, Width |-> d.Width]

\* a file os.Create made that nothing was written to (or not all of it)
EmptyFile == [kind |-> "empty"]

\* what jpeg.Encode writes for imaging.Crop(levelImage, bounds)
TileFile(img, bounds) == [kind |-> "tile", image |-> img, bounds |-> bounds]

\* check(err): panics unless err is nil; next is where the caller goes on
check(err, next) == IF err # "nil" THEN "panicked" ELSE next

(***************************************************************************)
(* ImageCreator.create, as main runs it.  One action per step that touches *)
(* the file system; a step that fails panics (check), and nothing recovers *)
(* a panic, so the run ends there.                                         *)
(***************************************************************************)
\* the formats loadImage accepts: "" (read as jpg), "jpg", "png"
Formats == {<<>>, CharsJpg, CharsPng}

DestA == <<"a", ".", "d", "z", "i">>

DestDotA == <<".", "/", "a", ".", "d", "z", "i">>

DestUpA == <<".", ".", "/", "a", ".", "d", "z", "i">>

DestXyZ == <<"x", ".", "y", "/", "z">>

DestAUpB == <<"a", "/", ".", ".", "/", "b", ".", "d", "z", "i">>

Scenario(d, f, fs) == [destination |-> d, format |-> f, disk |-> fs]

\* the runs of main: a destination (-d), a format (-f) and the file system
\* create starts in.  The destination is in the working directory, under a
\* directory, or behind ".."; a directory or a regular file may be in the way.
Scenarios ==
  {Scenario(DestA, f, <<>>) : f \in Formats}
  \cup
  { Scenario(DestDotA, CharsJpg, <<>>),
    Scenario(DestUpA, CharsJpg, <<>>),
    Scenario(DestXyZ, CharsJpg, <<>>),
    Scenario(DestXyZ, <<>>, Put(<<>>, <<"x", ".", "y">>, [kind |-> "file"])),
    Scenario(DestAUpB, CharsPng, <<>>),
    Scenario(DestAUpB, <<>>, Put(<<>>, <<"b", "_", "f", "i", "l", "e", "s">>, Dir)),
    Scenario(DestAUpB, CharsJpg, Put(<<>>, <<"a">>, [kind |-> "file"])) }

\* the outcomes of os.MkdirAll, jpeg.Encode and template.Execute
Errs == {"nil", "error"}

Event(ev, path, lvl, col, rw, what) ==
  [ev |-> ev, path |-> path, level |-> lvl, column |-> col, row |-> rw, what |-> what]

NoRect == Rectangle(0, 0, 0, 0)

Init ==
  /\ \E w \in 1..RunMaxDim, h \in 1..RunMaxDim, t \in 1..MaxTile, o \in 0..RunMaxOverlap,
        sc \in Scenarios :
       /\ dzid = [Format |-> sc.format, Overlap |-> o, TileSize |-> t,
                  Height |-> h, Width |-> w, numLevels |-> 0]
       /\ destination = sc.destination
       /\ disk = sc.disk
  /\ ic = [ResizeFilter |-> ""]
  /\ ret = NoCall
  /\ pc = "start"
  /\ imageFiles = <<>>
  /\ level = 0
  /\ levelDir = <<>>
  /\ levelImage = Raster("none", 0, 0, "none")
  /\ columns = 0
  /\ rows = 0
  /\ column = 0
  /\ row = 0
  /\ log = <<>>

\* getOrCreatePath(filePath): the file system it leaves and the error it
\* hands to check, under the outcome statErr of os.Stat; os.MkdirAll is called
\* only when os.IsNotExist(statErr), and `made` of its Mkdir calls succeed
getOrCreatePath(fs, filePath, statErr, made) ==
  IF IsNotExist(statErr) THEN MkdirSome(fs, filePath, made)
  ELSE [fs |-> fs, err |-> "nil"]

\* TRUE when getOrCreatePath panics: check(err) after os.MkdirAll
getOrCreatePathFails(fs, filePath, statErr, made) ==
  getOrCreatePath(fs, filePath, statErr, made).err # "nil"

\* the outcomes (statErr, made) of one getOrCreatePath(filePath); made is the
\* number of directories os.MkdirAll has to make when no Mkdir call fails
PathOutcomes(fs, filePath) ==
  {o \in StatErrs(fs, filePath) \X (0 .. Len(filePath)) :
     IF IsNotExist(o[1]) THEN o[2] <= Cardinality(MissingDirs(fs, filePath))
     ELSE o[2] = 0}

\* what the trace says of a getOrCreatePath that returned: the directory is
\* there ("mkdir"), or it is not and the call returned all the same ("nodir")
PathEvent(fs, filePath) == IF IsDir(fs, filePath) THEN "mkdir" ELSE "nodir"

\* imageFiles := getOrCreatePath(getFilesPath(destination)); level := 0
CreateStart ==
  /\ pc = "start"
  /\ \E o \in PathOutcomes(disk, getFilesPath(destination)) :
       LET filesPath == getFilesPath(destination)
           out == getOrCreatePath(disk, filesPath, o[1], o[2])
           failed == out.err # "nil"
           fs == out.fs
       IN  /\ disk' = fs
           /\ pc' = check(out.err, "level")
           /\ imageFiles' = IF failed THEN imageFiles ELSE filesPath
           /\ log' = Append(log, Event(IF failed THEN "panic" ELSE PathEvent(fs, filesPath),
                                       filesPath, 0, 0, 0, NoRect))
  /\ level' = 0
  /\ dzid' = dzid
  /\ UNCHANGED <<ic, ret, destination, levelDir, levelImage, columns, rows, column, row>>

\* the loop test level < NumLevels(), and the head of the body: the level's
\* directory, its raster, its tile counts
CreateLevel ==
  /\ pc = "level"
  /\ level < NumLevels(dzid)
  /\ \E o \in PathOutcomes(disk, Join(imageFiles, Itoa(level))) :
       LET dir == Join(imageFiles, Itoa(level))
           out == getOrCreatePath(disk, dir, o[1], o[2])
           failed == out.err # "nil"
           fs == out.fs
           img == getImage(ic, Memo(dzid), level)
           n == getNumTiles(Memo(dzid), level)
           panicked == failed \/ img.err # "" \/ n.err # ""
       IN  /\ disk' = fs
           /\ pc' = IF img.err # "" \/ n.err # "" THEN "panicked"
                    ELSE check(out.err,
                               IF n.val[1] > 0 /\ n.val[2] > 0 THEN "tile" ELSE "nextLevel")
           /\ levelDir' = IF failed THEN levelDir ELSE dir
           /\ levelImage' = IF panicked THEN levelImage ELSE img.val
           /\ columns' = IF panicked THEN columns ELSE n.val[1]
           /\ rows' = IF panicked THEN rows ELSE n.val[2]
           /\ log' = IF failed
                       THEN Append(log, Event("panic", dir, level, 0, 0, NoRect))
                       ELSE log \o << Event(PathEvent(fs, dir), dir, level, 0, 0, NoRect),
                                      Event(IF img.err # "" THEN "panic" ELSE "getImage",
                                            <<>>, level, 0, 0, NoRect) >>
  /\ column' = 0
  /\ row' = 0
  /\ dzid' = Memo(dzid)
  /\ UNCHANGED <<ic, ret, destination, imageFiles, level>>

\* row++, and at the end of a column column++ with row := 0; pc after the tile
NextRow == IF row + 1 < rows THEN row + 1 ELSE 0

NextColumn == IF row + 1 < rows THEN column ELSE column + 1

AfterTileRowsOnly == IF row + 1 < rows THEN "tile" ELSE "nextLevel"

AfterTile == IF row + 1 < rows \/ column + 1 < columns THEN "tile" ELSE "nextLevel"

\* one pass of the inner loop body: bounds, crop, os.Create, jpeg.Encode
CreateTile ==
  /\ pc = "tile"
  /\ LET bounds == getTileBounds(dzid, level, column, row)
         tilePath == Join(levelDir, TileName(column, row, dzid.Format))
     IN  \E errCreate \in CreateErrs(disk, tilePath), errEncode \in Errs :
           LET created == bounds.err = "" /\ errCreate = "nil"
               encoded == created /\ errEncode = "nil"
               step == check(errCreate, check(errEncode, AfterTile))
           IN  /\ (errCreate # "nil" => errEncode = "nil")
               /\ disk' = IF encoded THEN Put(disk, tilePath, TileFile(levelImage, bounds.val))
                          ELSE IF created THEN Put(disk, tilePath, EmptyFile)
                          ELSE disk
               /\ pc' = IF bounds.err # "" THEN "panicked" ELSE step
               /\ log' = Append(log, Event(IF encoded THEN "tile" ELSE "panic", tilePath,
                                           level, column, row,
                                           IF bounds.err = "" THEN bounds.val ELSE NoRect))
               /\ column' = IF step = "panicked" THEN column ELSE NextColumn
               /\ row' = IF step = "panicked" THEN row ELSE NextRow
  /\ dzid' = AfterCheck(level, dzid)
  /\ UNCHANGED <<ic, ret, destination, imageFiles, level, levelDir, levelImage,
                 columns, rows>>

\* level++ at the end of the outer loop body
CreateNextLevel ==
  /\ pc = "nextLevel"
  /\ level' = level + 1
  /\ pc' = "level"
  /\ UNCHANGED <<dzid, ic, ret, destination, imageFiles, levelDir, levelImage,
                 columns, rows, column, row, disk, log>>

\* the loop ends, and ic.dzid.save(destination): os.Create, then t.Execute
CreateSave ==
  /\ pc = "level"
  /\ ~(level < NumLevels(dzid))
  /\ \E errCreate \in CreateErrs(disk, destination), errExecute \in Errs :
       LET created == errCreate = "nil"
           written == created /\ errExecute = "nil"
       IN  /\ (errCreate # "nil" => errExecute = "nil")
           /\ disk' = IF written THEN Put(disk, destination, DescriptorFile(dzid))
                      ELSE IF created THEN Put(disk, destination, EmptyFile)
                      ELSE disk
           /\ pc' = check(errCreate, check(errExecute, "done"))
           /\ log' = Append(log, Event(IF written THEN "save" ELSE "panic", destination,
                                       level, 0, 0, NoRect))
  /\ dzid' = Memo(dzid)
  /\ UNCHANGED <<ic, ret, destination, imageFiles, level, levelDir, levelImage,
                 columns, rows, column, row>>

Next ==
  \/ CreateStart
  \/ CreateLevel
  \/ CreateTile
  \/ CreateNextLevel
  \/ CreateSave

Spec == Init /\ [][Next]_vars

(***************************************************************************)
(* Properties of the descriptor API (SpecCalls).                           *)
(***************************************************************************)
MaxDimension == Max(dzid.Width, dzid.Height)

\* floor(log2(n)) for n >= 1
FloorLog2(n) == CHOOSE k \in 0..n : 2 ^ k <= n /\ n < 2 ^ (k + 1)

\* L = ceil(log2(n)) + 1 for n >= 1: 2^(L-1) is the least power of two >= n
IsCeilLog2PlusOne(L, n) ==
  /\ L >= 1
  /\ 2 ^ (L - 1) >= n
  /\ (L >= 2 => 2 ^ (L - 2) < n)

\* C1 as stated: NumLevels() returns floor(log2(max(W,H))) + 1.
C1_NumLevelsFloor ==
  ret.op = "NumLevels" => ret.val = FloorLog2(MaxDimension) + 1

\* C1 amended: every call of NumLevels() returns ceil(log2(max(W,H))) + 1, the
\* first call and every later one alike, and that value is what is cached.
C1_NumLevelsCeil ==
  /\ ret.op = "NumLevels" =>
       /\ ret.err = ""
       /\ IsCeilLog2PlusOne(ret.val, MaxDimension)
       /\ dzid.numLevels = ret.val
  /\ dzid.numLevels # 0 => IsCeilLog2PlusOne(dzid.numLevels, MaxDimension)

C1_Witness ==
  /\ ret.op = "NumLevels"
  /\ dzid.Width = 3
  /\ dzid.Height = 2
  /\ ret.val = 3

\* C2: getDimensions(NumLevels()-1) returns exactly (Width, Height).
C2_TopLevelIsSource ==
  (ret.op = "getDimensions" /\ ret.level = NumLevels(dzid) - 1) =>
     /\ ret.err = ""
     /\ ret.val = <<dzid.Width, dzid.Height>>

C2_Witness ==
  /\ ret.op = "getDimensions"
  /\ ret.level = NumLevels(dzid) - 1
  /\ ret.err = ""
  /\ dzid.Width = 5
  /\ dzid.Height = 3
  /\ ret.val = <<5, 3>>

\* the reference rule of C4 on one axis: the origin and the extent of tile
\* number coord out of count, on an axis of dim pixels
RefOrigin(coord, ts, ov) == coord * ts - (IF coord # 0 THEN ov ELSE 0)

RefSides(coord, count) ==
  (IF coord # 0 THEN 1 ELSE 0) + (IF coord # count - 1 THEN 1 ELSE 0)

RefExtent(coord, count, dim, ts, ov) ==
  Min(ts + RefSides(coord, count) * ov, dim - RefOrigin(coord, ts, ov))

\* the level's width and height, and its tile counts, by plain arithmetic
LevelDim(n, lvl) ==
  LET den == 2 ^ (NumLevels(dzid) - 1 - lvl)
  IN  CHOOSE q \in 0..n : q * den >= n /\ (q - 1) * den < n

TileCount(dim) == CHOOSE q \in 0..dim : q * dzid.TileSize >= dim /\ (q - 1) * dzid.TileSize < dim

\* C4: for a valid level and (column, row) of getNumTiles, getTileBounds
\* returns the rectangle of the reference rule: origin coordinate*tileSize minus
\* overlap if the coordinate is nonzero; extent tileSize plus overlap per side
\* with a neighbouring tile, clipped to the level dimension minus the origin.
C4_TileBoundsReference ==
  (ret.op = "getTileBounds" /\ ret.err = "") =>
     LET lw == LevelDim(dzid.Width, ret.level)
         lh == LevelDim(dzid.Height, ret.level)
         ox == RefOrigin(ret.column, dzid.TileSize, dzid.Overlap)
         oy == RefOrigin(ret.row, dzid.TileSize, dzid.Overlap)
         ex == RefExtent(ret.column, TileCount(lw), lw, dzid.TileSize, dzid.Overlap)
         ey == RefExtent(ret.row, TileCount(lh), lh, dzid.TileSize, dzid.Overlap)
     IN  ret.val = Rectangle(ox, oy, ox + ex, oy + ey)

\* a tile with a neighbour on both sides whose extent is not clipped
C4_Witness ==
  /\ ret.op = "getTileBounds"
  /\ ret.err = ""
  /\ dzid.Overlap = 1
  /\ dzid.TileSize = 1
  /\ dzid.Width = 5
  /\ ret.level = NumLevels(dzid) - 1
  /\ ret.column = 2
  /\ ret.val.Min.X = 1
  /\ ret.val.Max.X = 4

\* C5: for coordinates of getNumTiles on a valid level, the rectangle of
\* getTileBounds has positive width and height and lies inside the level's
\* raster, whatever the overlap.
C5_TileInsideLevel ==
  (ret.op = "getTileBounds" /\ ret.err = "") =>
     /\ ret.val.Max.X - ret.val.Min.X > 0
     /\ ret.val.Max.Y - ret.val.Min.Y > 0
     /\ ret.val.Min.X >= 0
     /\ ret.val.Min.Y >= 0
     /\ ret.val.Max.X <= LevelDim(dzid.Width, ret.level)
     /\ ret.val.Max.Y <= LevelDim(dzid.Height, ret.level)

LevelOps == {"getScale", "getDimensions", "getNumTiles", "getTileBounds", "getImage"}

\* C6: getScale, getDimensions, getNumTiles, getTileBounds and getImage fail
\* with "invalid pyramid level" exactly when level < 0 or level >= NumLevels().
C6_InvalidLevelExactly ==
  ret.op \in LevelOps =>
     /\ ret.err \in {"", "invalid pyramid level"}
     /\ (ret.err = "invalid pyramid level") <=>
          (ret.level < 0 \/ ret.level >= NumLevels(dzid))

C6_Witness ==
  /\ ret.op = "getImage"
  /\ ret.level = NumLevels(dzid)
  /\ dzid.numLevels = 4
  /\ ret.err = "invalid pyramid level"

\* C10: getImage(level) returns the source raster itself when
\* getDimensions(level) is (Width, Height), which is so only at level
\* NumLevels()-1; at every other level it returns a raster whose width and
\* height are exactly getDimensions(level), so that the rectangles of
\* getTileBounds lie inside the raster that is cropped.
C10_LevelRasterExact ==
  (ret.op = "getImage" /\ ret.err = "") =>
     LET lw == LevelDim(dzid.Width, ret.level)
         lh == LevelDim(dzid.Height, ret.level)
     IN  /\ (ret.val.kind = "source") <=> (<<lw, lh>> = <<dzid.Width, dzid.Height>>)
         /\ (ret.val.kind = "source") <=> (ret.level = NumLevels(dzid) - 1)
         /\ ret.val.width = lw
         /\ ret.val.height = lh

(***************************************************************************)
(* Properties of the filter lookup (SpecFilter).                           *)
(***************************************************************************)
KnownFilters == {"bilinear", "bicubic", "nearest", "lanczos"}

\* C9: obtainFilter never fails; a name of the fixed set comes back
\* unchanged, any other name comes back as "nearest"; so the lookup in
\* RESIZE_FILTERS finds an entry, nearest-neighbour for an unknown name.
C9_FilterFallback ==
  /\ ret.op = "obtainFilter" =>
       /\ ret.err = ""
       /\ ret.val = (IF ic.ResizeFilter \in KnownFilters THEN ic.ResizeFilter ELSE "nearest")
  /\ (ret.op = "getImage" /\ ret.err = "" /\ ret.val.kind = "resized") =>
       /\ ret.val.interp \in {"resize.Bilinear", "resize.Bicubic",
                              "resize.NearestNeighbor", "resize.Lanczos3"}
       /\ ic.ResizeFilter \notin KnownFilters => ret.val.interp = "resize.NearestNeighbor"

C9_Witness ==
  /\ ret.op = "getImage"
  /\ ret.err = ""
  /\ ic.ResizeFilter = "xyz"
  /\ ret.val.kind = "resized"
  /\ ret.val.interp = "resize.NearestNeighbor"

(***************************************************************************)
(* Properties of the create run (Spec), read off its trace.                *)
(***************************************************************************)
EventsOf(kind) == {i \in DOMAIN log : log[i].ev = kind}

TilesOfLevel(lvl) == {i \in EventsOf("tile") : log[i].level = lvl}

\* the (columns, rows) and the (width, height) of a level
TilesAt(lvl) == getNumTiles(Memo(dzid), lvl).val

DimensionsAt(lvl) == getDimensions(Memo(dzid), lvl).val

\* every tile of every level below lvl has been written
AllTilesWritten(lvl) ==
  \A l \in 0 .. lvl - 1 :
    \A c \in 0 .. TilesAt(l)[1] - 1, r \in 0 .. TilesAt(l)[2] - 1 :
      \E i \in TilesOfLevel(l) : log[i].column = c /\ log[i].row = r

\* <files>/<level>/<column>_<row>.<format>
TilePathOf(lvl, c, r) ==
  imageFiles \o <<"/">> \o Itoa(lvl) \o <<"/">> \o Itoa(c) \o <<"_">> \o Itoa(r)
    \o <<".">> \o dzid.Format

\* the paths p and q name the same file, which is there
SameFile(fs, p, q) ==
  /\ Exists(fs, p) /\ Exists(fs, q)
  /\ Rooted(p) = Rooted(q)
  /\ Resolve(fs, p).at = Resolve(fs, q).at

\* the steps of create that failed: those that panicked, and the
\* getOrCreatePath calls that returned without the directory being there
FailedSteps == EventsOf("panic") \cup EventsOf("nodir")

\* C7: in a run without failure the levels are processed in the order 0, 1,
\* ..., NumLevels()-1; a level's raster is obtained exactly once, before any
\* of its tiles; each (column, row) of getNumTiles(level) is written exactly
\* once, to the file its own path <files>/<level>/<column>_<row>.<format>
\* names; no two tile writes share a path; no tile outside getNumTiles is written; the descriptor
\* is written exactly once, after every tile of every level.
C7_CreateTrace ==
  /\ \A i \in EventsOf("getImage") :
       log[i].level = Cardinality({j \in EventsOf("getImage") : j < i})
  /\ \A t \in EventsOf("tile") :
       /\ \E i \in EventsOf("getImage") : i < t /\ log[i].level = log[t].level
       /\ \A i \in EventsOf("getImage") : i > t => log[i].level > log[t].level
       /\ log[t].level \in 0 .. dzid.numLevels - 1
       /\ log[t].column \in 0 .. TilesAt(log[t].level)[1] - 1
       /\ log[t].row \in 0 .. TilesAt(log[t].level)[2] - 1
       /\ FailedSteps = {} =>
            SameFile(disk, log[t].path, TilePathOf(log[t].level, log[t].column, log[t].row))
       /\ \A u \in EventsOf("tile") : u # t =>
            /\ log[u].path # log[t].path
            /\ <<log[u].level, log[u].column, log[u].row>>
                 # <<log[t].level, log[t].column, log[t].row>>
  /\ \A i \in EventsOf("save") :
       /\ i = Len(log)
       /\ log[i].path = destination
       /\ EventsOf("save") = {i}
       /\ Cardinality(EventsOf("getImage")) = dzid.numLevels
       /\ AllTilesWritten(dzid.numLevels)
  /\ pc = "done" => EventsOf("save") # {}

\* a finished run of three levels whose top level has four tiles
C7_Witness ==
  /\ pc = "done"
  /\ dzid.numLevels = 3
  /\ Cardinality(TilesOfLevel(2)) = 4
  /\ Cardinality(EventsOf("save")) = 1

\* a step of create failed before the descriptor's turn
FailedInTiles == \E i \in FailedSteps : log[i].path # destination

\* C8: a step of create that fails (creating a directory, creating a tile
\* file, encoding a tile, writing the descriptor) aborts the run there:
\* nothing is done after it (no later tile, no retry, no skipping of the
\* failed tile), the descriptor is never written when the failure came during
\* tile emission, and every tile written before the failure is still on disk
\* as written.
C8_FailFast ==
  /\ \A i \in FailedSteps : i = Len(log) /\ pc = "panicked"
  /\ pc = "panicked" => FailedSteps # {}
  /\ FailedInTiles => ~Exists(disk, destination)
  /\ \A t \in EventsOf("tile") :
       /\ Exists(disk, log[t].path)
       /\ FileAt(disk, log[t].path).kind = "tile"
       /\ FileAt(disk, log[t].path).bounds = log[t].what

\* the pixels of the rectangle [x0, x1) x [y0, y1)
Pixels(x0, y0, x1, y1) == (x0 .. x1 - 1) \X (y0 .. y1 - 1)

LeadX(i) == IF log[i].column # 0 THEN dzid.Overlap ELSE 0

LeadY(i) == IF log[i].row # 0 THEN dzid.Overlap ELSE 0

\* tile event i's rectangle without its leading overlap
StripLeading(i) ==
  Pixels(log[i].what.Min.X + LeadX(i), log[i].what.Min.Y + LeadY(i),
         log[i].what.Max.X, log[i].what.Max.Y)

\* tile event i's rectangle without its leading overlap and without what lies
\* beyond the tile's own cell on the right and at the bottom
StripBoth(i) ==
  Pixels(log[i].what.Min.X + LeadX(i), log[i].what.Min.Y + LeadY(i),
         Min(log[i].what.Max.X, (log[i].column + 1) * dzid.TileSize),
         Min(log[i].what.Max.Y, (log[i].row + 1) * dzid.TileSize))

\* the sets Part(i), i in the tiles of level lvl, partition the level's pixels
Partitions(lvl, Part(_)) ==
  LET all == Pixels(0, 0, DimensionsAt(lvl)[1], DimensionsAt(lvl)[2])
  IN  /\ \A i \in TilesOfLevel(lvl) : Part(i) # {} /\ Part(i) \subseteq all
      /\ \A px \in all : Cardinality({i \in TilesOfLevel(lvl) : px \in Part(i)}) = 1

\* the levels whose tiles have all been emitted
FinishedLevels == 0 .. (IF pc = "nextLevel" THEN level ELSE level - 1)

\* C3 as stated: the tile rectangles of a level, each without its leading
\* overlap, partition the level's pixel rectangle.
C3_LeadingStripPartitions ==
  pc \in {"level", "tile", "nextLevel", "done"} =>
    \A lvl \in FinishedLevels : Partitions(lvl, StripLeading)

\* C3 amended: the tile rectangles of a level, each without its leading overlap
\* and without its trailing overlap (what reaches past (column+1)*tileSize on
\* the right and (row+1)*tileSize at the bottom), partition the level's pixel
\* rectangle: no gap, no pixel in two of them.
C3_BothStripPartitions ==
  pc \in {"level", "tile", "nextLevel", "done"} =>
    \A lvl \in FinishedLevels : Partitions(lvl, StripBoth)

\* a finished level of three columns with overlap
C3_Witness ==
  /\ pc = "done"
  /\ dzid.Overlap = 1
  /\ dzid.TileSize = 1
  /\ dzid.Width = 3
  /\ \E i \in TilesOfLevel(2) : log[i].column = 2

====
